---- MODULE Spec2Model ----
(***************************************************************************)
(* Model of vphysics_wrapper.cpp: the CPU-dispatch shim that picks one of  *)
(* vphysics_jolt_sse2 / _sse42 / _avx2, loads it with Sys_LoadInterface    *)
(* and forwards the IPhysics, IPhysicsSurfaceProps and IPhysicsCollision   *)
(* interfaces to it.                                                       *)
(*                                                                         *)
(* Pointers are handles: NULL is 0, and the handle of a loaded module is   *)
(* the position of its load in loadLog.  The delegate exported by a module *)
(* is identified by the handle of that module.                             *)
(***************************************************************************)
EXTENDS Integers, Sequences, FiniteSets, TLC

VARIABLES
    cpu,        \* the host CPU: what CPUID answers (never changes)
    fac,        \* per facade: m_pActual...Module and m_pActual...Interface
    life,       \* per facade object: "unconstructed", "alive" or "destroyed"
    loadLog,    \* every Sys_LoadInterface call made so far, in order
    unloadLog,  \* every Sys_UnloadModule call made so far, in order
    lastOp,     \* the last facade operation: arguments, result, what it did
    crashed,    \* the process was killed by a wild call
    pc,         \* per thread: position inside Connect / QueryInterface
    tl          \* per thread: operation, delegate observed, result, the
                \* module of its load and the fields that load has yet to write

vars == <<cpu, fac, life, loadLog, unloadLog, lastOp, crashed, pc, tl>>

-----------------------------------------------------------------------------
(* Bounds of the model *)

\* Sys_LoadInterface calls explored per run
MaxLoads == 4
\* PhysicsWrapper::Disconnect calls that reach Sys_UnloadModule, per run
MaxDisconnects == 2

-----------------------------------------------------------------------------
(* Values *)

NULL == 0

Facades == {"env", "surf", "coll"}

\* Argument values handed to the facades (pointers, ids, counts)
Vals == {"a0", "a1"}

Threads == {"t1", "t2"}

\* nullptr as a returned value, false as a returned bool
NullRet == "nullptr"
FalseRet == "false"
\* the result slot of a void method, or of a call that never returned
NoRet == "none"
\* a wild call that kills the process
Crash == "crash"

-----------------------------------------------------------------------------
(* Capability detection *)

\* enum CPULevel_t
CPU_HAS_SSE2 == "CPU_HAS_SSE2"
CPU_HAS_SSE42 == "CPU_HAS_SSE42"
CPU_HAS_AVX2 == "CPU_HAS_AVX2"

CPULevel_t == {CPU_HAS_SSE2, CPU_HAS_SSE42, CPU_HAS_AVX2}

\* numFuncs >= 7: the CPU exposes the extended feature leaf
ExtendedLeaf == 7
\* bit 5 of EBX of leaf 7
AVX2Bit == 5
\* bit 20 of ECX of leaf 1
SSE42Bit == 20

\* Host CPUs explored: the highest basic leaf (EAX of leaf 0), EBX of leaf 7
\* and ECX of leaf 1.  Bit 3 of EBX (BMI1) and bit 19 of ECX (SSE4.1) are
\* neighbours of the bits the code tests.
CPUs ==
    [ numFuncs : {1, 6, 7, 13},
      leaf7_ebx : {0, 8, 32, 40},
      leaf1_ecx : {0, 524288, 1048576, 1572864} ]

\* One host per tier of the detector, for the runs that follow a whole process:
\* leaf 7 with AVX2; no leaf 7, SSE4.2; no leaf 7, neither
HostCPUs ==
    { [numFuncs |-> 13, leaf7_ebx |-> 40, leaf1_ecx |-> 1572864],
      [numFuncs |-> 6, leaf7_ebx |-> 0, leaf1_ecx |-> 1572864],
      [numFuncs |-> 6, leaf7_ebx |-> 0, leaf1_ecx |-> 524288] }

\* x & (1 << n)
MaskBit(x, n) == ((x \div (2 ^ n)) % 2) * (2 ^ n)

\* GetCPUID: cpuInfo[0..3] = EAX, EBX, ECX, EDX of leaf func (as <<..>>, from 1).
\* A leaf above the highest supported one answers zeros here; the code never
\* reads such a leaf.
GetCPUID(c, func) ==
    CASE func = 0 -> <<c.numFuncs, 0, 0, 0>>
      [] func = 1 -> <<0, 0, c.leaf1_ecx, 0>>
      [] func = ExtendedLeaf /\ c.numFuncs >= ExtendedLeaf -> <<0, c.leaf7_ebx, 0, 0>>
      [] OTHER -> <<0, 0, 0, 0>>

\* A detector that drops the AVX2 test of leaf 7
GetCPULevel_NoAVX2(c) ==
    IF MaskBit(GetCPUID(c, 1)[3], SSE42Bit) # 0 THEN CPU_HAS_SSE42 ELSE CPU_HAS_SSE2

GetCPULevel(c) ==
    LET numFuncs == GetCPUID(c, 0)[1]
    IN  IF numFuncs >= ExtendedLeaf
        THEN LET hasAVX2 == MaskBit(GetCPUID(c, ExtendedLeaf)[2], AVX2Bit) # 0
             IN  IF hasAVX2 THEN CPU_HAS_AVX2 ELSE CPU_HAS_SSE2
        ELSE LET hasSSE42 == MaskBit(GetCPUID(c, 1)[3], SSE42Bit) # 0
             IN  IF hasSSE42 THEN CPU_HAS_SSE42 ELSE CPU_HAS_SSE2

\* The three module names (DLL_EXT_STRING, the platform's suffix, left off)
ModuleNames == {"vphysics_jolt_sse2", "vphysics_jolt_sse42", "vphysics_jolt_avx2"}

GetModuleFromCPULevel(level) ==
    CASE level = CPU_HAS_AVX2 -> "vphysics_jolt_avx2"
      [] level = CPU_HAS_SSE42 -> "vphysics_jolt_sse42"
      [] OTHER -> "vphysics_jolt_sse2"

-----------------------------------------------------------------------------
(* The module loader and the delegates *)

\* VPHYSICS_INTERFACE_VERSION, VPHYSICS_SURFACEPROPS_INTERFACE_VERSION and
\* VPHYSICS_COLLISION_INTERFACE_VERSION, by facade
InterfaceVersion(f) ==
    CASE f = "env" -> "VPHYSICS_INTERFACE_VERSION"
      [] f = "surf" -> "VPHYSICS_SURFACEPROPS_INTERFACE_VERSION"
      [] f = "coll" -> "VPHYSICS_COLLISION_INTERFACE_VERSION"

\* What a load can come to: the file is absent or invalid; the module loads
\* but does not export the interface version asked for; or it succeeds.
LoadOutcomes == {"nofile", "noexport", "ok"}

\* Sys_LoadInterface( pModuleName, pInterfaceVersionName, &module, &interface ),
\* called by facade f, coming to outcome out.  On success the
\* two out-pointers receive the new module and its delegate; on failure they
\* are left as they were and the call answers false.
Sys_LoadInterface(f, pModuleName, pInterfaceVersionName, out) ==
    LET h == Len(loadLog) + 1
        entry == [facade |-> f, file |-> pModuleName,
                  version |-> pInterfaceVersionName, outcome |-> out]
    IN  [ ok |-> (out = "ok"),
          fac |-> IF out = "ok"
                  THEN [fac EXCEPT ![f] = [module |-> h, iface |-> h]]
                  ELSE fac,
          loadLog |-> Append(loadLog, entry),
          step |-> [k |-> "load", method |-> pModuleName,
                    args |-> <<pInterfaceVersionName>>,
                    target |-> IF out = "ok" THEN h ELSE NULL,
                    result |-> out, ub |-> "none"] ]

\* Sys_UnloadModule calls made so far on handle h
UnloadCount(h) == Cardinality({i \in 1..Len(unloadLog) : unloadLog[i].handle = h})

\* What calling through delegate pointer d is: a call on a live delegate, a
\* call through a null pointer, or a call into a module already unloaded
UBKind(d) ==
    CASE d = NULL -> "null"
      [] UnloadCount(d) > 0 -> "dangling"
      [] OTHER -> "none"

\* What each method of the delegates can answer
DelegateResults(m) ==
    CASE m = "Connect" -> {"false", "true"}
      [] m = "Init" -> {"INIT_FAILED", "INIT_OK"}
      [] m \in {"Disconnect", "Shutdown", "DestroyEnvironment", "ConvexFree",
                "DestroyObjectPairHash", "DestroyAllCollisionSets"} -> {NoRet}
      [] m \in {"ParseSurfaceData", "SurfacePropCount"} -> {"n0", "n1"}
      [] OTHER -> {NullRet, "obj"}

\* The outcomes of m_pActual...Interface->m( ... ) through pointer d.  Through
\* a null or dangling pointer the call is undefined: the process dies, or the
\* call lands somewhere and comes back with some value of the return type.
CallOutcomes(d, m) ==
    IF UBKind(d) = "none" THEN DelegateResults(m) ELSE DelegateResults(m) \cup {Crash}

CallStep(d, m, args, r) ==
    [k |-> "call", method |-> m, args |-> args, target |-> d, result |-> r,
     ub |-> UBKind(d)]

UnloadStep(h) ==
    [k |-> "unload", method |-> "Sys_UnloadModule", args |-> <<>>, target |-> h,
     result |-> NoRet, ub |-> "none"]

\* Sys_UnloadModule( h ) issued by facade f
Sys_UnloadModule(f, h) == Append(unloadLog, [facade |-> f, handle |-> h])

-----------------------------------------------------------------------------
(* The facades *)

\* The host calls in only once the library's static objects are constructed,
\* and no longer once the process has begun to exit or has died
HostMayCall == ~crashed /\ \A f \in Facades : life[f] = "alive"

\* Argument lists of n values
ArgTuples(n) == [1..n -> Vals]

\* The end of an operation op( args ) of facade f: its result, the steps it
\* took, and the fields and logs as it leaves them
Return(f, op, args, ret, steps, newFac, newLoadLog, newUnloadLog) ==
    /\ lastOp' = [facade |-> f, op |-> op, args |-> args, ret |-> ret, steps |-> steps]
    /\ fac' = newFac
    /\ loadLog' = newLoadLog
    /\ unloadLog' = newUnloadLog
    /\ crashed' = (steps # <<>> /\ steps[Len(steps)].result = Crash)
    /\ UNCHANGED <<cpu, pc, tl>>

\* A forwarding call that hands the delegate the arguments in reverse order
ForwardCall_ArgsReversed(f, op, args, steps, newFac, newLoadLog) ==
    LET d == newFac[f].iface
        swapped == [i \in 1..Len(args) |-> args[Len(args) + 1 - i]]
    IN  \E r \in CallOutcomes(d, op) :
            Return(f, op, args, IF r = Crash THEN NoRet ELSE r,
                   Append(steps, CallStep(d, op, swapped, r)),
                   newFac, newLoadLog, unloadLog)

\* return m_pActual...Interface->op( args ), after the steps already taken
ForwardCall(f, op, args, steps, newFac, newLoadLog) ==
    LET d == newFac[f].iface
    IN  \E r \in CallOutcomes(d, op) :
            Return(f, op, args, IF r = Crash THEN NoRet ELSE r,
                   Append(steps, CallStep(d, op, args, r)),
                   newFac, newLoadLog, unloadLog)

\* A one-line forwarding method op with n arguments
Forward(f, op, n) ==
    /\ HostMayCall
    /\ \E args \in ArgTuples(n) : ForwardCall(f, op, args, <<>>, fac, loadLog)
    /\ UNCHANGED life

\* An InitWrapper that loads whether or not a delegate is already held
InitWrapper_NoCache(out) ==
    LET pModuleName == GetModuleFromCPULevel(GetCPULevel(cpu))
        r == Sys_LoadInterface("env", pModuleName, InterfaceVersion("env"), out)
    IN  [ok |-> r.ok, fac |-> r.fac, loadLog |-> r.loadLog, steps |-> <<r.step>>]

\* An InitWrapper that answers true whatever the loader answered
InitWrapper_AlwaysTrue(out) ==
    IF fac["env"].iface # NULL
    THEN [ok |-> TRUE, fac |-> fac, loadLog |-> loadLog, steps |-> <<>>]
    ELSE LET pModuleName == GetModuleFromCPULevel(GetCPULevel(cpu))
             r == Sys_LoadInterface("env", pModuleName, InterfaceVersion("env"), out)
         IN  [ok |-> TRUE, fac |-> r.fac, loadLog |-> r.loadLog, steps |-> <<r.step>>]

\* An InitWrapper that, when the selected module fails to load, goes on to
\* ask the loader for the baseline module
InitWrapper_Downgrade(out) ==
    IF fac["env"].iface # NULL
    THEN [ok |-> TRUE, fac |-> fac, loadLog |-> loadLog, steps |-> <<>>]
    ELSE LET pModuleName == GetModuleFromCPULevel(GetCPULevel(cpu))
             r == Sys_LoadInterface("env", pModuleName, InterfaceVersion("env"), out)
             again == [facade |-> "env", file |-> "vphysics_jolt_sse2",
                       version |-> InterfaceVersion("env"), outcome |-> out]
         IN  IF r.ok
             THEN [ok |-> TRUE, fac |-> r.fac, loadLog |-> r.loadLog, steps |-> <<r.step>>]
             ELSE [ok |-> FALSE, fac |-> r.fac, loadLog |-> Append(r.loadLog, again),
                   steps |-> <<r.step, [r.step EXCEPT !.method = "vphysics_jolt_sse2"]>>]

\* PhysicsWrapper::InitWrapper, the loader (if it is called) coming to
\* outcome out: the answer, and the fields and log after
InitWrapper(out) ==
    IF fac["env"].iface # NULL
    THEN [ok |-> TRUE, fac |-> fac, loadLog |-> loadLog, steps |-> <<>>]
    ELSE LET pModuleName == GetModuleFromCPULevel(GetCPULevel(cpu))
             r == Sys_LoadInterface("env", pModuleName, InterfaceVersion("env"), out)
         IN  [ok |-> r.ok, fac |-> r.fac, loadLog |-> r.loadLog, steps |-> <<r.step>>]

\* Connect and QueryInterface: if ( !InitWrapper() ) return failure; then forward
ResolveThenForward(op, failure) ==
    /\ HostMayCall
    /\ \E args \in ArgTuples(1), out \in LoadOutcomes :
          LET w == InitWrapper(out)
          IN  /\ Len(w.loadLog) <= MaxLoads
              /\ IF ~w.ok
                 THEN Return("env", op, args, failure, w.steps, w.fac, w.loadLog, unloadLog)
                 ELSE ForwardCall("env", op, args, w.steps, w.fac, w.loadLog)
    /\ UNCHANGED life

PW_Connect == ResolveThenForward("Connect", FalseRet)

PW_QueryInterface == ResolveThenForward("QueryInterface", NullRet)

\* Sys_UnloadModule calls the environment facade has made
EnvUnloads == Cardinality({i \in 1..Len(unloadLog) : unloadLog[i].facade = "env"})

PW_Disconnect ==
    /\ HostMayCall
    /\ LET d == fac["env"].iface
           h == fac["env"].module
       IN  \E r \in CallOutcomes(d, "Disconnect") :
              IF r = Crash
              THEN Return("env", "Disconnect", <<>>, NoRet,
                          <<CallStep(d, "Disconnect", <<>>, r)>>, fac, loadLog, unloadLog)
              ELSE /\ EnvUnloads < MaxDisconnects
                   /\ Return("env", "Disconnect", <<>>, NoRet,
                             <<CallStep(d, "Disconnect", <<>>, r), UnloadStep(h)>>,
                             fac, loadLog, Sys_UnloadModule("env", h))
    /\ UNCHANGED life

PW_Init == Forward("env", "Init", 0)
PW_Shutdown == Forward("env", "Shutdown", 0)
PW_CreateEnvironment == Forward("env", "CreateEnvironment", 0)
PW_DestroyEnvironment == Forward("env", "DestroyEnvironment", 1)
PW_GetActiveEnvironmentByIndex == Forward("env", "GetActiveEnvironmentByIndex", 1)
PW_CreateObjectPairHash == Forward("env", "CreateObjectPairHash", 0)
PW_DestroyObjectPairHash == Forward("env", "DestroyObjectPairHash", 1)
PW_FindOrCreateCollisionSet == Forward("env", "FindOrCreateCollisionSet", 2)
PW_FindCollisionSet == Forward("env", "FindCollisionSet", 1)
PW_DestroyAllCollisionSets == Forward("env", "DestroyAllCollisionSets", 0)

\* A constructor that loads into the fields of the surface-properties facade
\* whichever facade is being constructed
Construct_SharedFields(f) ==
    /\ ~crashed
    /\ life[f] = "unconstructed"
    /\ life' = [life EXCEPT ![f] = "alive"]
    /\ \E out \in LoadOutcomes :
          LET pModuleName == GetModuleFromCPULevel(GetCPULevel(cpu))
              r == Sys_LoadInterface("surf", pModuleName, InterfaceVersion(f), out)
          IN  /\ Len(r.loadLog) <= MaxLoads
              /\ Return(f, "ctor", <<>>, NoRet, <<r.step>>, r.fac, r.loadLog, unloadLog)

\* A constructor that loads nothing and leaves resolution to first use
Construct_NoLoad(f) ==
    /\ ~crashed
    /\ life[f] = "unconstructed"
    /\ life' = [life EXCEPT ![f] = "alive"]
    /\ Return(f, "ctor", <<>>, NoRet, <<>>, fac, loadLog, unloadLog)

\* A constructor that keeps the handle of a module that loaded but did not
\* export the interface
Construct_KeepsHandle(f) ==
    /\ ~crashed
    /\ life[f] = "unconstructed"
    /\ life' = [life EXCEPT ![f] = "alive"]
    /\ \E out \in LoadOutcomes :
          LET pModuleName == GetModuleFromCPULevel(GetCPULevel(cpu))
              r == Sys_LoadInterface(f, pModuleName, InterfaceVersion(f), out)
              kept == IF out = "noexport"
                      THEN [r.fac EXCEPT ![f].module = Len(r.loadLog)]
                      ELSE r.fac
          IN  /\ Len(r.loadLog) <= MaxLoads
              /\ Return(f, "ctor", <<>>, NoRet, <<r.step>>, kept, r.loadLog, unloadLog)

\* A constructor that asks for the baseline module whatever the CPU is
Construct_BaselineOnly(f) ==
    /\ ~crashed
    /\ life[f] = "unconstructed"
    /\ life' = [life EXCEPT ![f] = "alive"]
    /\ \E out \in LoadOutcomes :
          LET r == Sys_LoadInterface(f, "vphysics_jolt_sse2", InterfaceVersion(f), out)
          IN  /\ Len(r.loadLog) <= MaxLoads
              /\ Return(f, "ctor", <<>>, NoRet, <<r.step>>, r.fac, r.loadLog, unloadLog)

\* The constructors of the surface-properties and collision facades:
\* if ( m_pActual...Interface ) return; otherwise load, and on failure only
\* print "Failed to load".  The objects are static, so the fields are zero
\* when the constructor runs.
Construct(f) ==
    /\ ~crashed
    /\ life[f] = "unconstructed"
    /\ life' = [life EXCEPT ![f] = "alive"]
    /\ IF fac[f].iface # NULL
       THEN Return(f, "ctor", <<>>, NoRet, <<>>, fac, loadLog, unloadLog)
       ELSE \E out \in LoadOutcomes :
              LET pModuleName == GetModuleFromCPULevel(GetCPULevel(cpu))
                  r == Sys_LoadInterface(f, pModuleName, InterfaceVersion(f), out)
              IN  /\ Len(r.loadLog) <= MaxLoads
                  /\ Return(f, "ctor", <<>>, NoRet, <<r.step>>, r.fac, r.loadLog, unloadLog)

\* A destructor that unloads the module of the surface-properties facade
\* whichever facade it belongs to
Destroy_WrongField(f) ==
    /\ ~crashed
    /\ life[f] = "alive"
    /\ life' = [life EXCEPT ![f] = "destroyed"]
    /\ Return(f, "dtor", <<>>, NoRet, <<UnloadStep(fac["surf"].module)>>, fac, loadLog,
              Sys_UnloadModule(f, fac["surf"].module))

\* The destructors: Sys_UnloadModule( m_pActual...Module )
Destroy(f) ==
    /\ ~crashed
    /\ life[f] = "alive"
    /\ life' = [life EXCEPT ![f] = "destroyed"]
    /\ Return(f, "dtor", <<>>, NoRet, <<UnloadStep(fac[f].module)>>, fac, loadLog,
              Sys_UnloadModule(f, fac[f].module))

\* Static objects of one translation unit are constructed in the order of
\* their definitions and destroyed in the reverse order, at exit
PSP_Construct == Construct("surf")

PC_Construct == life["surf"] # "unconstructed" /\ Construct("coll")

PC_Destroy == life["surf"] = "alive" /\ Destroy("coll")

PSP_Destroy == life["coll"] = "destroyed" /\ Destroy("surf")

PSP_ParseSurfaceData == Forward("surf", "ParseSurfaceData", 2)
PSP_SurfacePropCount == Forward("surf", "SurfacePropCount", 0)

PC_ConvexFromVerts == Forward("coll", "ConvexFromVerts", 2)
PC_ConvexFree == Forward("coll", "ConvexFree", 1)

-----------------------------------------------------------------------------
(* The process, its facades called by one host thread *)

NoOp == [facade |-> "none", op |-> "none", args |-> <<>>, ret |-> NoRet, steps |-> <<>>]

InitOn(hosts) ==
    /\ cpu \in hosts
    /\ fac = [f \in Facades |-> [module |-> NULL, iface |-> NULL]]
    /\ life = [f \in Facades |-> IF f = "env" THEN "alive" ELSE "unconstructed"]
    /\ loadLog = <<>>
    /\ unloadLog = <<>>
    /\ lastOp = NoOp
    /\ crashed = FALSE
    /\ pc = [t \in Threads |-> "idle"]
    /\ tl = [t \in Threads |-> [op |-> "none", seen |-> NULL, ret |-> NoRet,
                                 loaded |-> NULL, pending |-> {}]]

Init == InitOn(HostCPUs)

Next ==
    \/ PSP_Construct
    \/ PC_Construct
    \/ PW_Connect
    \/ PW_QueryInterface
    \/ PW_Disconnect
    \/ PW_Init
    \/ PW_Shutdown
    \/ PW_CreateEnvironment
    \/ PW_DestroyEnvironment
    \/ PW_GetActiveEnvironmentByIndex
    \/ PW_CreateObjectPairHash
    \/ PW_DestroyObjectPairHash
    \/ PW_FindOrCreateCollisionSet
    \/ PW_FindCollisionSet
    \/ PW_DestroyAllCollisionSets
    \/ PSP_ParseSurfaceData
    \/ PSP_SurfacePropCount
    \/ PC_ConvexFromVerts
    \/ PC_ConvexFree
    \/ PC_Destroy
    \/ PSP_Destroy

Spec == Init /\ [][Next]_vars

-----------------------------------------------------------------------------
(* Resolution alone, on every host CPU of CPUs: the static constructors and *)
(* the two operations of the environment facade that resolve               *)

InitDetect == InitOn(CPUs)

NextDetect ==
    \/ PSP_Construct
    \/ PC_Construct
    \/ PW_Connect
    \/ PW_QueryInterface

SpecDetect == InitDetect /\ [][NextDetect]_vars

-----------------------------------------------------------------------------
(* Two host threads, each making one Connect or QueryInterface call on the  *)
(* environment facade.  The facade takes no lock, so the statements of the  *)
(* two calls interleave: the test of m_pActualPhysicsInterface, the load,   *)
(* each of the loader's two stores, the forwarding call.                    *)

\* Entry into Connect( factory ) or QueryInterface( pInterfaceName )
T_Call(t) ==
    /\ HostMayCall
    /\ pc[t] = "idle"
    /\ \E op \in {"Connect", "QueryInterface"} :
          tl' = [tl EXCEPT ![t].op = op]
    /\ pc' = [pc EXCEPT ![t] = "check"]
    /\ UNCHANGED <<cpu, fac, life, loadLog, unloadLog, lastOp, crashed>>

\* InitWrapper: if ( m_pActualPhysicsInterface ) return true;
T_Check(t) ==
    /\ pc[t] = "check"
    /\ pc' = [pc EXCEPT ![t] = IF fac["env"].iface # NULL THEN "forward" ELSE "load"]
    /\ UNCHANGED <<cpu, fac, life, loadLog, unloadLog, lastOp, crashed, tl>>

\* InitWrapper: the Sys_LoadInterface call up to the point where the loader
\* has its result, and the caller's return on failure.  On success the loader
\* still has to store through the two out-pointers of line 129.
T_Load(t) ==
    /\ pc[t] = "load"
    /\ \E out \in LoadOutcomes :
          LET pModuleName == GetModuleFromCPULevel(GetCPULevel(cpu))
              r == Sys_LoadInterface("env", pModuleName, InterfaceVersion("env"), out)
          IN  /\ Len(r.loadLog) <= MaxLoads
              /\ loadLog' = r.loadLog
              /\ IF r.ok
                 THEN /\ pc' = [pc EXCEPT ![t] = "store"]
                      /\ tl' = [tl EXCEPT ![t].loaded = Len(r.loadLog),
                                          ![t].pending = {"module", "iface"}]
                 ELSE /\ pc' = [pc EXCEPT ![t] = "done"]
                      /\ tl' = [tl EXCEPT ![t].ret =
                                   IF tl[t].op = "Connect" THEN FalseRet ELSE NullRet]
    /\ UNCHANGED <<cpu, fac, life, unloadLog, lastOp, crashed>>

\* The return of Sys_LoadInterface to InitWrapper and of InitWrapper to its
\* caller, once both out-pointers are written
AfterStore(t, left) == IF left = {} THEN "forward" ELSE "store"

\* The loader's store through &m_pActualPhysicsModule.  The two stores of a
\* load are separate writes to fields shared by the threads, unsynchronised
\* and in an order the facade does not fix, so they interleave with the
\* stores and the reads of the other thread.
T_StoreModule(t) ==
    /\ pc[t] = "store"
    /\ "module" \in tl[t].pending
    /\ fac' = [fac EXCEPT !["env"].module = tl[t].loaded]
    /\ tl' = [tl EXCEPT ![t].pending = @ \ {"module"}]
    /\ pc' = [pc EXCEPT ![t] = AfterStore(t, tl[t].pending \ {"module"})]
    /\ UNCHANGED <<cpu, life, loadLog, unloadLog, lastOp, crashed>>

\* The loader's store through (void **)&m_pActualPhysicsInterface
T_StoreInterface(t) ==
    /\ pc[t] = "store"
    /\ "iface" \in tl[t].pending
    /\ fac' = [fac EXCEPT !["env"].iface = tl[t].loaded]
    /\ tl' = [tl EXCEPT ![t].pending = @ \ {"iface"}]
    /\ pc' = [pc EXCEPT ![t] = AfterStore(t, tl[t].pending \ {"iface"})]
    /\ UNCHANGED <<cpu, life, loadLog, unloadLog, lastOp, crashed>>

\* return m_pActualPhysicsInterface->Connect( factory ) / ->QueryInterface( .. )
T_Forward(t) ==
    /\ pc[t] = "forward"
    /\ LET d == fac["env"].iface
       IN  \E r \in CallOutcomes(d, tl[t].op) :
              /\ tl' = [tl EXCEPT ![t].seen = d, ![t].ret = r]
              /\ crashed' = (r = Crash)
    /\ pc' = [pc EXCEPT ![t] = "done"]
    /\ UNCHANGED <<cpu, fac, life, loadLog, unloadLog, lastOp>>

NextMT ==
    \/ PSP_Construct
    \/ PC_Construct
    \/ \E t \in Threads : T_Call(t)
    \/ \E t \in Threads : T_Check(t)
    \/ \E t \in Threads : T_Load(t)
    \/ \E t \in Threads : T_StoreModule(t)
    \/ \E t \in Threads : T_StoreInterface(t)
    \/ \E t \in Threads : T_Forward(t)

SpecMT == Init /\ [][NextMT]_vars

-----------------------------------------------------------------------------
(* Claims *)

\* The calls the last operation made through a delegate pointer
CallsOf(op) == {i \in 1..Len(op.steps) : op.steps[i].k = "call"}
\* The Sys_LoadInterface calls the last operation made
LoadsOf(op) == {i \in 1..Len(op.steps) : op.steps[i].k = "load"}

\* What the CPU reports, stated apart from the detector: leaf 7 is exposed and
\* bit 5 of its EBX is set; bit 20 of ECX of leaf 1 is set
HasAVX2Bit(c) == c.numFuncs >= 7 /\ (c.leaf7_ebx \div 32) % 2 = 1
HasSSE42Bit(c) == (c.leaf1_ecx \div 1048576) % 2 = 1

\* C1: no operation of the environment facade calls through the delegate
\* pointer while that pointer is still null.
C1_NoForwardWhileUnresolved ==
    lastOp.facade = "env" =>
        \A i \in CallsOf(lastOp) : lastOp.steps[i].target # NULL

\* C2: every module name requested from the loader is one of the three fixed
\* names, and it is the avx2 name whenever the CPU reports the AVX2 bit (leaf 7
\* exposed, bit 5 of its EBX set), whatever the SSE4.2 bit is.
C2_ModuleNameTotalAndAVX2First ==
    \A i \in 1..Len(loadLog) :
        /\ loadLog[i].file \in ModuleNames
        /\ HasAVX2Bit(cpu) => loadLog[i].file = "vphysics_jolt_avx2"

\* C2 witness: a load was requested on a CPU with AVX2 and without SSE4.2
C2_Witness ==
    /\ Len(loadLog) > 0
    /\ HasAVX2Bit(cpu) /\ ~HasSSE42Bit(cpu)
    /\ loadLog[1].file = "vphysics_jolt_avx2"

\* C3: the detector is a strict fallback ladder: without the AVX2 bit and with
\* the SSE4.2 bit the module requested is the sse42 one, and the sse2 module is
\* requested only when neither bit is reported.
C3_StrictFallbackLadder ==
    \A i \in 1..Len(loadLog) :
        /\ (~HasAVX2Bit(cpu) /\ HasSSE42Bit(cpu)) => loadLog[i].file = "vphysics_jolt_sse42"
        /\ loadLog[i].file = "vphysics_jolt_sse2" => (~HasAVX2Bit(cpu) /\ ~HasSSE42Bit(cpu))

\* The Sys_LoadInterface calls facade f has made, and those that succeeded
LoadsBy(f) == {i \in 1..Len(loadLog) : loadLog[i].facade = f}
OkLoadsBy(f) == {i \in LoadsBy(f) : loadLog[i].outcome = "ok"}

\* The last operation was Connect or QueryInterface of the environment facade
LastResolves == lastOp.facade = "env" /\ lastOp.op \in {"Connect", "QueryInterface"}

\* C4 as stated: once the environment facade holds a delegate, no step calls
\* the loader for it again, a Connect or QueryInterface forwards to the cached
\* delegate, and the loader has been called for the facade exactly once.
C4_LoadCountExactlyOne ==
    [][ fac["env"].iface # NULL =>
          /\ Cardinality(LoadsBy("env")) = 1
          /\ LoadsBy("env")' = LoadsBy("env")
          /\ (lastOp' # lastOp /\ LastResolves') =>
                /\ LoadsOf(lastOp') = {}
                /\ \A i \in CallsOf(lastOp') : lastOp'.steps[i].target = fac["env"].iface
      ]_vars

\* C4 amended: once the environment facade holds a delegate, no step calls the
\* loader for it again or changes its module and delegate: a Connect or
\* QueryInterface forwards to the cached delegate, and the facade's load count
\* stays what it was when resolution succeeded, which is one successful load,
\* the last the facade made, after the failed attempts that came before it.
C4_ResolutionIdempotent ==
    [][ fac["env"].iface # NULL =>
          /\ Cardinality(OkLoadsBy("env")) = 1
          /\ \A i \in LoadsBy("env") : \A j \in OkLoadsBy("env") : i <= j
          /\ LoadsBy("env")' = LoadsBy("env")
          /\ fac'["env"] = fac["env"]
          /\ (lastOp' # lastOp /\ LastResolves') =>
                /\ LoadsOf(lastOp') = {}
                /\ \A i \in CallsOf(lastOp') : lastOp'.steps[i].target = fac["env"].iface
      ]_vars

\* C4 witness: after one failed attempt and one successful load, a Connect or
\* QueryInterface found the delegate cached and forwarded to it, the module
\* still loaded
C4_Witness ==
    /\ LastResolves
    /\ Len(lastOp.steps) = 1
    /\ lastOp.steps[1].k = "call"
    /\ lastOp.steps[1].ub = "none"
    /\ lastOp.steps[1].target = fac["env"].iface
    /\ Cardinality(LoadsBy("env")) = 2
    /\ Cardinality(OkLoadsBy("env")) = 1

\* C5 as claimed: the loader is invoked at most once for each facade.
C5_LoaderInvokedAtMostOnce ==
    \A f \in Facades : Cardinality(LoadsBy(f)) <= 1

\* C5 amended: for each facade the loader is never invoked again after it has
\* succeeded (so it succeeds at most once); an attempt that failed leaves the
\* environment facade unresolved, and each later Connect or QueryInterface of
\* an unresolved facade calls the loader again.
C5_NoLoadAfterSuccessRetryAfterFailure ==
    /\ [] (\A f \in Facades : \A i, j \in LoadsBy(f) :
              i < j => loadLog[i].outcome # "ok")
    /\ [] ((LastResolves /\ \E i \in LoadsOf(lastOp) : lastOp.steps[i].result # "ok")
              => fac["env"].iface = NULL)
    /\ [][ (fac["env"].iface = NULL /\ lastOp' # lastOp /\ LastResolves')
              => Cardinality(LoadsBy("env"))' = Cardinality(LoadsBy("env")) + 1 ]_vars

\* C5 witness: the environment facade called the loader a second time after a
\* first attempt that failed
C5_Witness ==
    /\ Cardinality(LoadsBy("env")) = 2
    /\ \E i \in LoadsBy("env") : loadLog[i].outcome # "ok"
    /\ LastResolves
    /\ LoadsOf(lastOp) # {}

\* C6: a Connect or QueryInterface whose load failed answers failure (false,
\* nullptr) and calls no method of the delegate.
C6_FailedResolutionSurfaces ==
    (LastResolves /\ \E i \in LoadsOf(lastOp) : lastOp.steps[i].result # "ok") =>
        /\ lastOp.ret = (IF lastOp.op = "Connect" THEN FalseRet ELSE NullRet)
        /\ CallsOf(lastOp) = {}
        /\ ~crashed

\* C6 witness: a Connect whose load failed and which answered false
C6_Witness ==
    /\ LastResolves
    /\ lastOp.op = "Connect"
    /\ Len(lastOp.steps) = 1
    /\ lastOp.steps[1].k = "load"
    /\ lastOp.steps[1].result = "noexport"
    /\ lastOp.ret = FalseRet

\* The last operation was a QueryInterface that loaded the module itself
QueryInterfaceResolved ==
    /\ lastOp.facade = "env"
    /\ lastOp.op = "QueryInterface"
    /\ \E i \in LoadsOf(lastOp) : lastOp.steps[i].result = "ok"

\* C7: a QueryInterface that loads the module forwards to the QueryInterface of
\* the delegate just loaded, with its argument, and returns its result; a
\* Connect that follows loads nothing and forwards to that same delegate, the
\* module handle and delegate unchanged.
C7_QueryInterfaceBeforeConnect ==
    /\ [] (QueryInterfaceResolved =>
              /\ Len(lastOp.steps) = 2
              /\ lastOp.steps[1].k = "load"
              /\ lastOp.steps[2] = [k |-> "call", method |-> "QueryInterface",
                                    args |-> lastOp.args,
                                    target |-> lastOp.steps[1].target,
                                    result |-> lastOp.ret, ub |-> "none"]
              /\ fac["env"] = [module |-> lastOp.steps[1].target,
                               iface |-> lastOp.steps[1].target])
    /\ [][ (QueryInterfaceResolved /\ lastOp'.op = "Connect") =>
              /\ fac' = fac
              /\ loadLog' = loadLog
              /\ Len(lastOp'.steps) = 1
              /\ lastOp'.steps[1].k = "call"
              /\ lastOp'.steps[1].method = "Connect"
              /\ lastOp'.steps[1].target = fac["env"].iface
              /\ lastOp'.ret = lastOp'.steps[1].result ]_vars

\* C7 witness: the first resolution attempt of the environment facade was a
\* QueryInterface, it succeeded, and a Connect can follow
C7_Witness ==
    /\ QueryInterfaceResolved
    /\ Cardinality(LoadsBy("env")) = 1
    /\ lastOp.ret = "obj"
    /\ ENABLED PW_Connect

\* C8: no module handle is unloaded more than once.
C8_UnloadAtMostOnce ==
    \A h \in 1..Len(loadLog) : UnloadCount(h) <= 1

\* C9: no operation calls through the delegate of a module already unloaded.
C9_NoForwardAfterUnload ==
    \A i \in CallsOf(lastOp) : lastOp.steps[i].ub # "dangling"

\* C10: when two threads have each made their first Connect or QueryInterface
\* and every load succeeded, the loader was called once and both threads
\* forwarded to the one delegate the facade holds.
C10_ConcurrentFirstUseLoadsOnce ==
    ( /\ \A t \in Threads : pc[t] = "done"
      /\ \A i \in LoadsBy("env") : loadLog[i].outcome = "ok" ) =>
        /\ Cardinality(LoadsBy("env")) = 1
        /\ \A t \in Threads : tl[t].seen # NULL /\ tl[t].seen = fac["env"].iface

\* C11: an operation that calls a live delegate calls it once, the delegate
\* of its own facade, by the method of the operation's own name, with the
\* arguments it received in the order it received them, and returns what the
\* delegate returned.
C11_ForwardIdentity ==
    \A i \in CallsOf(lastOp) :
        lastOp.steps[i].ub = "none" =>
            /\ Cardinality(CallsOf(lastOp)) = 1
            /\ lastOp.steps[i].method = lastOp.op
            /\ lastOp.steps[i].args = lastOp.args
            /\ lastOp.steps[i].target = fac[lastOp.facade].iface
            /\ lastOp.ret = lastOp.steps[i].result

\* C11 witness: ConvexFromVerts( a0, a1 ) on the resolved collision facade
\* reached the delegate as ( a0, a1 ) and returned the delegate's object
C11_Witness ==
    /\ lastOp.facade = "coll"
    /\ lastOp.op = "ConvexFromVerts"
    /\ lastOp.args = <<"a0", "a1">>
    /\ Len(lastOp.steps) = 1
    /\ lastOp.steps[1].ub = "none"
    /\ lastOp.steps[1].args = <<"a0", "a1">>
    /\ lastOp.ret = "obj"

\* C12: an operation that resolves asks the loader once, for the module name
\* the tier mapping selects for the host CPU; when that load fails the
\* operation loads nothing else, the facade is left without a delegate, and
\* Connect and QueryInterface answer failure.
C12_OneNameNoDowngrade ==
    /\ Cardinality(LoadsOf(lastOp)) <= 1
    /\ \A i \in LoadsOf(lastOp) :
          /\ lastOp.steps[i].method = GetModuleFromCPULevel(GetCPULevel(cpu))
          /\ lastOp.steps[i].result # "ok" =>
                /\ fac[lastOp.facade].iface = NULL
                /\ Len(lastOp.steps) = 1
                /\ lastOp.facade = "env" =>
                      lastOp.ret = (IF lastOp.op = "Connect" THEN FalseRet ELSE NullRet)

\* C12 witness: on a CPU with AVX2 a Connect asked for the avx2 module, the
\* file could not be loaded, and the call ended there with false
C12_Witness ==
    /\ lastOp.facade = "env"
    /\ lastOp.op = "Connect"
    /\ Len(lastOp.steps) = 1
    /\ lastOp.steps[1].k = "load"
    /\ lastOp.steps[1].method = "vphysics_jolt_avx2"
    /\ lastOp.steps[1].result = "nofile"
    /\ lastOp.ret = FalseRet
    /\ fac["env"].iface = NULL

\* A resolution of facade f that succeeds
ResolvesOk(f) ==
    /\ \/ f = "env" /\ (PW_Connect \/ PW_QueryInterface)
       \/ f = "surf" /\ PSP_Construct
       \/ f = "coll" /\ PC_Construct
    /\ fac[f].iface = NULL
    /\ fac'[f].iface # NULL

\* Facade f has made a resolution attempt and it failed
ResolutionFailed(f) ==
    /\ LoadsBy(f) # {}
    /\ \A i \in LoadsBy(f) : loadLog[i].outcome # "ok"

\* Facade g may attempt a resolution now, and the loader may still be called
MayResolve(g) ==
    /\ ~crashed
    /\ Len(loadLog) < MaxLoads
    /\ fac[g].iface = NULL
    /\ CASE g = "env" -> HostMayCall
         [] g = "surf" -> life["surf"] = "unconstructed"
         [] g = "coll" -> life["surf"] # "unconstructed" /\ life["coll"] = "unconstructed"

\* C13: an operation of one facade leaves the module handle and delegate of
\* the other two as they were, in particular a resolution that fails; and
\* after a failed resolution of one facade each other facade that has yet to
\* resolve can still resolve successfully.
C13_FacadesResolveIndependently ==
    /\ [][ \A f \in Facades :
              (lastOp' # lastOp /\ lastOp'.facade = f) =>
                  \A g \in Facades \ {f} : fac'[g] = fac[g] ]_vars
    /\ [] (\A f \in Facades : \A g \in Facades \ {f} :
              (ResolutionFailed(f) /\ MayResolve(g)) => ENABLED ResolvesOk(g))

\* C13 witness: the surface-properties facade failed to resolve for want of
\* the export, and the collision and environment facades resolved after it
C13_Witness ==
    /\ ResolutionFailed("surf")
    /\ loadLog[1].outcome = "noexport"
    /\ fac["surf"] = [module |-> NULL, iface |-> NULL]
    /\ fac["coll"].iface # NULL
    /\ fac["env"].iface # NULL
    /\ UnloadCount(fac["env"].module) = 0

\* C14: once the construction-time resolution of the surface-properties or
\* collision facade has failed, no operation of that facade calls through its
\* delegate pointer.
C14_NoForwardAfterFailedConstruction ==
    (lastOp.facade \in {"surf", "coll"} /\ ResolutionFailed(lastOp.facade)) =>
        CallsOf(lastOp) = {}

\* C15: a facade object that holds a delegate holds it for a module that is
\* still loaded.
C15_DelegateImpliesModuleLoaded ==
    \A f \in Facades :
        (life[f] = "alive" /\ fac[f].iface # NULL) => UnloadCount(fac[f].module) = 0

\* The Sys_UnloadModule calls the last operation made
UnloadsOf(op) == {i \in 1..Len(op.steps) : op.steps[i].k = "unload"}

\* C16: the environment facade exists from the start with no load made, and
\* its loads happen in Connect and QueryInterface only, the first of which
\* always attempts one; the surface-properties
\* and collision facades have made exactly one load attempt once constructed,
\* none before, and the only operation of theirs that loads is the constructor.
C16_LoadTiming ==
    /\ lastOp = NoOp => (life["env"] = "alive" /\ loadLog = <<>>)
    /\ \A f \in {"surf", "coll"} :
          Cardinality(LoadsBy(f)) = (IF life[f] = "unconstructed" THEN 0 ELSE 1)
    /\ (lastOp.facade = "env" /\ lastOp.op \in {"Connect", "QueryInterface"}) =>
          LoadsBy("env") # {}
    /\ LoadsOf(lastOp) # {} =>
          \/ lastOp.facade = "env" /\ lastOp.op \in {"Connect", "QueryInterface"}
          \/ lastOp.facade \in {"surf", "coll"} /\ lastOp.op = "ctor"

\* C16 witness: both constructors have made their one attempt, a forwarding
\* method of the surface-properties facade has run, and the environment facade
\* has not loaded yet
C16_Witness ==
    /\ lastOp.facade = "surf"
    /\ lastOp.op = "ParseSurfaceData"
    /\ Cardinality(LoadsBy("surf")) = 1
    /\ Cardinality(LoadsBy("coll")) = 1
    /\ LoadsBy("env") = {}
    /\ ENABLED PW_QueryInterface

\* C17: a module that loaded without exporting the interface (the module of
\* load i, for an export failure at load i) is never unloaded by a facade: the
\* operation that met the failure makes no unload and, for Connect and
\* QueryInterface, answers failure, and no later operation unloads it.
C17_ExportFailureLeaksModule ==
    /\ \A i \in 1..Len(loadLog) :
          loadLog[i].outcome = "noexport" => UnloadCount(i) = 0
    /\ \A i \in LoadsOf(lastOp) :
          lastOp.steps[i].result = "noexport" =>
              /\ UnloadsOf(lastOp) = {}
              /\ fac[lastOp.facade].iface = NULL
              /\ lastOp.facade = "env" =>
                    lastOp.ret = (IF lastOp.op = "Connect" THEN FalseRet ELSE NullRet)

\* C17 witness: the surface-properties facade met an export failure at
\* construction and has since been destroyed, its module never unloaded
C17_Witness ==
    /\ loadLog # <<>>
    /\ loadLog[1].facade = "surf"
    /\ loadLog[1].outcome = "noexport"
    /\ life["surf"] = "destroyed"
    /\ UnloadCount(1) = 0

\* C18: every Disconnect of the environment facade consists of the delegate's
\* Disconnect, made while the module that owns the delegate is still loaded
\* and completed, followed by the unload of the facade's module.
C18_DisconnectForwardsThenUnloads ==
    (lastOp.facade = "env" /\ lastOp.op = "Disconnect") =>
        /\ Len(lastOp.steps) = 2
        /\ lastOp.steps[1].k = "call"
        /\ lastOp.steps[1].method = "Disconnect"
        /\ lastOp.steps[1].ub # "dangling"
        /\ lastOp.steps[1].result # Crash
        /\ lastOp.steps[2] = UnloadStep(fac["env"].module)

\* C19 as stated: every unload a facade issues passes a handle that an
\* earlier successful load of that facade produced.
C19_UnloadOnlyOwnLoadedHandle ==
    \A i \in UnloadsOf(lastOp) :
        lastOp.steps[i].target \in OkLoadsBy(lastOp.facade)

\* C19 amended: every unload a facade issues passes the facade's module field,
\* which is null when no load of that facade has succeeded and is otherwise the
\* handle that the facade's successful load produced.
C19_UnloadPassesModuleField ==
    \A i \in UnloadsOf(lastOp) :
        LET h == lastOp.steps[i].target
            f == lastOp.facade
        IN  /\ h = fac[f].module
            /\ IF OkLoadsBy(f) = {} THEN h = NULL ELSE h \in OkLoadsBy(f)

\* C19 witness: the collision facade was destroyed passing the handle of its
\* successful load, then the surface-properties facade, whose construction-
\* time load failed, was destroyed passing null
C19_Witness ==
    /\ lastOp.facade = "surf"
    /\ lastOp.op = "dtor"
    /\ LoadsBy("surf") # {}
    /\ OkLoadsBy("surf") = {}
    /\ lastOp.steps[1].target = NULL
    /\ \E i \in 1..Len(unloadLog) :
          /\ unloadLog[i].facade = "coll"
          /\ unloadLog[i].handle \in OkLoadsBy("coll")

\* Every load requested so far asked for the one file name that the host CPU
\* selects, with the interface version string of the facade that asked
SameFileOwnVersion ==
    \A i \in 1..Len(loadLog) :
        /\ loadLog[i].file = GetModuleFromCPULevel(GetCPULevel(cpu))
        /\ loadLog[i].version = InterfaceVersion(loadLog[i].facade)

\* C20 as stated: all loads ask for the file name of the host CPU, and the
\* process makes at most three of them, no two with the same interface
\* version string.
C20_SameFileAtMostThreeLoads ==
    /\ SameFileOwnVersion
    /\ Len(loadLog) <= 3
    /\ \A i, j \in 1..Len(loadLog) :
          loadLog[i].version = loadLog[j].version => i = j

\* C20 amended: all loads ask for the file name of the host CPU, each with the
\* version string of its facade; the surface-properties and collision facades
\* ask at most once each, the environment facade may ask again after a
\* failure, and at most one load per facade succeeds, so at most three
\* modules are resolved, with three different version strings.
C20_SameFilePerCPU ==
    /\ SameFileOwnVersion
    /\ \A f \in {"surf", "coll"} : Cardinality(LoadsBy(f)) <= 1
    /\ \A f \in Facades : Cardinality(OkLoadsBy(f)) <= 1
    /\ \A i, j \in 1..Len(loadLog) :
          (loadLog[i].outcome = "ok" /\ loadLog[j].outcome = "ok"
             /\ loadLog[i].version = loadLog[j].version) => i = j

\* C20 witness: on a CPU with AVX2 the three facades have each loaded the avx2
\* module successfully, the environment facade after one failed attempt
C20_Witness ==
    /\ HasAVX2Bit(cpu)
    /\ Len(loadLog) = 4
    /\ \A f \in Facades : Cardinality(OkLoadsBy(f)) = 1
    /\ \A i \in 1..Len(loadLog) : loadLog[i].file = "vphysics_jolt_avx2"
    /\ {loadLog[i].version : i \in 1..Len(loadLog)} = {InterfaceVersion(f) : f \in Facades}

====
